---------------------------- MODULE Spec2Model ----------------------------
(***************************************************************************)
(* Model of the revolving line-of-credit ledger of src/advances.py         *)
(* (class AdvanceCalculator) and of the Event record of src/event.py.      *)
(*                                                                         *)
(* Five specifications share the engine's state:                           *)
(*   Spec          one call of get_advance_statistics(events, end_date) on *)
(*                 a fresh engine, stepped through its loops;              *)
(*   SpecScenario  as Spec, over the inputs of the specification's worked  *)
(*                 scenarios (amount 1000, days 0, 5 and 10);              *)
(*   SpecTwoCalls  as Spec, followed by a second call on a fresh engine    *)
(*                 with a later end date and no event in between;          *)
(*   SpecTwoLists  as Spec, followed by a second call on a fresh engine    *)
(*                 with the same end date and other events after it;       *)
(*   SpecEngine    a caller that drives a fresh engine directly through    *)
(*                 the public process_event(event, next_event), one call   *)
(*                 per step, over date-ordered events.                     *)
(*                                                                         *)
(* Money.  The code computes with decimal.Decimal.  Every amount of the    *)
(* model is an exact polynomial in the daily rate r = LOAN_INTEREST_RATE   *)
(* with integer coefficients, kept as the sequence <<c0, c1, c2, ...>> for *)
(* c0 + c1*r + c2*r^2 + ... without trailing zeros (so equal values are    *)
(* equal sequences).  Accrual multiplies by r (a shift), everything else   *)
(* adds, subtracts or compares.  Because r = RateNum/RateDen is small, the *)
(* sign of such a value is the sign of its first non-zero coefficient as   *)
(* long as the later coefficients are at most CoefRatio times larger       *)
(* (SignsAreExact states this for the balances of every state).            *)
(* Not modelled: Decimal's 28-digit rounding and the binary noise of       *)
(* D(0.00035).                                                             *)
(*                                                                         *)
(* Dates are day numbers (datetime.date differences are whole days).       *)
(***************************************************************************)
EXTENDS Integers, Sequences, FiniteSets, TLC

\* ------------------------------------------------------------- bounds
\* Spec: the longest event list, the last event day, the largest amount.
MaxEvents == 4
MaxDate == 2
MaxAmount == 1
\* SpecEngine: the number of process_event calls, the largest gap in days
\* between two consecutive events, the largest whole amount of an event.
MaxCalls == 6
MaxGap == 1
MaxUnits == 1

\* ------------------------------------------------- Decimal arithmetic
\* LOAN_INTEREST_RATE = D(0.00035) = RateNum / RateDen.
RateNum == 7
RateDen == 20000
\* The largest C with C * r / (1 - r) < 1.
CoefRatio == (RateDen - RateNum) \div RateNum

Max(a, b) == IF a >= b THEN a ELSE b
AbsInt(n) == IF n < 0 THEN -n ELSE n

RECURSIVE PNorm(_)
PNorm(p) ==
    IF p = <<>> THEN <<>>
    ELSE IF p[Len(p)] = 0 THEN PNorm(SubSeq(p, 1, Len(p) - 1))
    ELSE p

PCoef(p, i) == IF i <= Len(p) THEN p[i] ELSE 0
\* D(n) for a whole number n.
Dec(n) == PNorm(<<n>>)
Zero == Dec(0)
PAdd(p, q) == PNorm([i \in 1..Max(Len(p), Len(q)) |-> PCoef(p, i) + PCoef(q, i)])
PNeg(p) == [i \in 1..Len(p) |-> -p[i]]
PSub(p, q) == PAdd(p, PNeg(q))
\* n * p for an integer n (a day count).
PScale(n, p) == PNorm([i \in 1..Len(p) |-> n * p[i]])
\* LOAN_INTEREST_RATE * p.
PTimesRate(p) == IF p = <<>> THEN <<>> ELSE <<0>> \o p
\* The index of the first non-zero coefficient (0 for the value zero).
PLead(p) ==
    IF p = <<>> THEN 0
    ELSE CHOOSE i \in 1..Len(p) : p[i] # 0 /\ \A j \in 1..(i - 1) : p[j] = 0
\* -1, 0 or 1: the result of comparing p with D(0).
PSign(p) == IF p = <<>> THEN 0 ELSE IF p[PLead(p)] > 0 THEN 1 ELSE -1
PAbs(p) == IF PSign(p) < 0 THEN PNeg(p) ELSE p
\* The first-coefficient sign of p is its sign as a number.
PSignExact(p) ==
    p = <<>> \/ \A j \in (PLead(p) + 1)..Len(p) :
                    AbsInt(p[j]) <= CoefRatio * AbsInt(p[PLead(p)])

\* -------------------------------------------------------------- Event
EVENT_PAYMENT_TYPE == "payment"
EVENT_ADVANCE_TYPE == "advance"
EVENT_TRUNCATED_TYPE == "truncated"

\* Event(id, type, amount, date): the flags take their defaults.
Event(id, type, amount, date) ==
    [id |-> id, type |-> type, amount |-> amount, date |-> date,
     is_last |-> FALSE, is_same_date |-> FALSE, state |-> "None"]

\* Python's None where an Event is expected; getattr(None, flag, False) is
\* False.
None == [id |-> 0, type |-> "None", amount |-> Zero, date |-> 0,
         is_last |-> FALSE, is_same_date |-> FALSE, state |-> "None"]

\* ------------------------------------------------------------- engine
\* AdvanceCalculator.__init__: the fresh engine.  raised is not a field of
\* the object: it records that the operation raised ValueError.
NewEngine ==
    [advance_balance |-> Zero,
     interest_payable_balance |-> Zero,
     interest_paid |-> Zero,
     payments_for_future |-> Zero,
     advances |-> <<>>,
     last_advance_balance |-> Zero,
     last_interest_payable_balance |-> Zero,
     last_interest_paid |-> Zero,
     last_payments_for_future |-> Zero,
     advance_count |-> 0,
     last_event |-> 0,
     last_advance |-> 0,
     raised |-> FALSE]

\* The daily_interest property.
DailyInterest(e) == PTimesRate(e.advance_balance)

GetDateDifference(current_date, last_date) == current_date - last_date

GetAccruedInterests(e, event_date, last_event_date, inclusive) ==
    LET date_delta == GetDateDifference(event_date, last_event_date)
    IN  IF inclusive THEN PScale(date_delta, DailyInterest(e))
        ELSE PScale(date_delta - 1, DailyInterest(e))

\* The for loop of _decrease_oldest_active_balance (lines 70-106) from the
\* i-th stored advance on; using is is_using_payment_from_event.  The scan
\* yields the engine, the amount still to apply and the flag.
RECURSIVE DecreaseScan(_, _, _, _)

\* The three branches on an unpaid advance; decreased_advance_balance is
\* its balance less the remaining amount.
DecreaseBranch(e, i, remaining_amount, using, decreased_advance_balance) ==
    IF PSign(decreased_advance_balance) = 0
    THEN [e |-> [e EXCEPT !.advances[i].current_balance = Zero,
                          !.advances[i].is_paid = TRUE,
                          !.advance_balance = PSub(@, remaining_amount)],
          remaining_amount |-> Zero, using |-> using]
    ELSE IF PSign(decreased_advance_balance) > 0
    THEN [e |-> [e EXCEPT !.advances[i].current_balance =
                               PSub(@, remaining_amount),
                          !.advance_balance = PSub(@, remaining_amount),
                          !.payments_for_future = IF using THEN Zero ELSE @],
          remaining_amount |-> Zero, using |-> using]
    ELSE DecreaseScan(
           [e EXCEPT !.advances[i].current_balance = Zero,
                     !.advances[i].is_paid = TRUE,
                     !.advance_balance =
                          PSub(@, e.advances[i].current_balance),
                     !.payments_for_future = PAbs(decreased_advance_balance)],
           i + 1, PAbs(decreased_advance_balance), TRUE)

DecreaseScan(e, i, remaining_amount, using) ==
    IF i > Len(e.advances)
    THEN [e |-> e, remaining_amount |-> remaining_amount, using |-> using]
    ELSE IF e.advances[i].is_paid
    THEN DecreaseScan(e, i + 1, remaining_amount, using)
    ELSE DecreaseBranch(e, i, remaining_amount, using,
                        PSub(e.advances[i].current_balance, remaining_amount))

\* Lines 111-117 on the outcome s of the scan: what is left over is banked
\* when every advance is paid and no advance was overpaid in the scan.
BankLeftover(s) ==
    IF /\ PSign(s.remaining_amount) > 0
       /\ \A i \in 1..Len(s.e.advances) : s.e.advances[i].is_paid
       /\ ~s.using
    THEN [s.e EXCEPT !.payments_for_future = PAdd(@, s.remaining_amount)]
    ELSE s.e

DecreaseOldestActiveBalance(e, remaining_amount) ==
    BankLeftover(DecreaseScan(e, 1, remaining_amount, FALSE))

\* Lines 165-185: banked credit against a positive aggregate balance;
\* diff is advance_balance_overall_remaining_diff.
NetCreditAgainstBalance(e, diff) ==
    IF PSign(diff) = 0
    THEN [e EXCEPT !.advance_balance = Zero, !.payments_for_future = Zero]
    ELSE IF PSign(diff) > 0
    THEN [e EXCEPT !.advance_balance = PSub(@, diff),
                   !.payments_for_future = Zero]
    ELSE [e EXCEPT !.advance_balance = Zero,
                   !.payments_for_future = PAbs(diff)]

\* Lines 165-191, after the payoff of a payment that exceeded the interest
\* payable.
ReconcileAfterPayoff(e) ==
    IF PSign(e.payments_for_future) > 0 /\ PSign(e.advance_balance) > 0
    THEN NetCreditAgainstBalance(
           e, PSub(e.advance_balance, e.payments_for_future))
    ELSE IF PSign(e.advance_balance) < 0
            /\ PSign(e.interest_payable_balance) = 0
    THEN [e EXCEPT !.payments_for_future = PAbs(e.advance_balance),
                   !.advance_balance = Zero]
    ELSE e

\* Lines 194-195.
ChargeTodaysInterest(e, increase_interest) ==
    IF increase_interest
    THEN [e EXCEPT !.interest_payable_balance = PAdd(@, DailyInterest(e))]
    ELSE e

\* A payment flow that skips the interest and applies the whole payment to
\* principal.
PayPrincipalOnly(e, current_event, increase_interest, remaining_amount) ==
    DecreaseOldestActiveBalance(e, current_event.amount)

\* A payment flow that, when the payment does not cover the interest,
\* records the payment as interest paid and writes the rest of the interest
\* off.
ForgiveRestOfInterest(e, current_event, increase_interest, remaining_amount) ==
    IF PSign(remaining_amount) = 0
    THEN [e EXCEPT !.interest_paid = PAdd(@, current_event.amount)]
    ELSE IF PSign(remaining_amount) < 0
    THEN [e EXCEPT !.interest_paid = PAdd(@, current_event.amount),
                   !.interest_payable_balance = Zero]
    ELSE ChargeTodaysInterest(
           ReconcileAfterPayoff(
             DecreaseOldestActiveBalance(
               [e EXCEPT !.interest_paid = PAdd(@, e.interest_payable_balance),
                         !.interest_payable_balance = Zero],
               remaining_amount)),
           increase_interest)

\* A payment flow that sets the interest payable to zero when the payment
\* equals it.
ClearExactInterest(e, current_event, increase_interest, remaining_amount) ==
    IF PSign(remaining_amount) = 0
    THEN [e EXCEPT !.interest_paid = PAdd(@, current_event.amount),
                   !.interest_payable_balance = Zero]
    ELSE IF PSign(remaining_amount) < 0
    THEN [e EXCEPT !.interest_paid = PAdd(@, current_event.amount),
                   !.interest_payable_balance = PAbs(remaining_amount)]
    ELSE ChargeTodaysInterest(
           ReconcileAfterPayoff(
             DecreaseOldestActiveBalance(
               [e EXCEPT !.interest_paid = PAdd(@, e.interest_payable_balance),
                         !.interest_payable_balance = Zero],
               remaining_amount)),
           increase_interest)

\* Lines 142-195: interest is payable; remaining_amount is the payment
\* less the interest payable.
PayInterestFirst(e, current_event, increase_interest, remaining_amount) ==
    IF PSign(remaining_amount) = 0
    THEN [e EXCEPT !.interest_paid = PAdd(@, current_event.amount)]
    ELSE IF PSign(remaining_amount) < 0
    THEN [e EXCEPT !.interest_paid = PAdd(@, current_event.amount),
                   !.interest_payable_balance = PAbs(remaining_amount)]
    ELSE ChargeTodaysInterest(
           ReconcileAfterPayoff(
             DecreaseOldestActiveBalance(
               [e EXCEPT !.interest_paid = PAdd(@, e.interest_payable_balance),
                         !.interest_payable_balance = Zero],
               remaining_amount)),
           increase_interest)

ExecutePaymentFlow(e, current_event, increase_interest) ==
    IF PSign(e.interest_payable_balance) > 0
    THEN PayInterestFirst(
           e, current_event, increase_interest,
           PSub(current_event.amount, e.interest_payable_balance))
    ELSE IF PSign(e.interest_payable_balance) = 0
    THEN DecreaseOldestActiveBalance(e, current_event.amount)
    ELSE [e EXCEPT !.raised = TRUE]

\* Lines 222-242: event_amount, the balance the advance opens with; diff
\* is advance_payments_for_future_difference.
OpeningBalance(amount, payments_for_future, diff) ==
    IF PSign(payments_for_future) > 0
    THEN IF PSign(diff) > 0 THEN diff ELSE Zero
    ELSE amount

\* An advance creation that keeps the banked credit as it was.
CreditKept(payments_for_future, diff) == payments_for_future

\* Lines 225-242: the credit left once the advance is opened.
CreditLeft(payments_for_future, diff) ==
    IF PSign(payments_for_future) > 0
    THEN IF PSign(diff) >= 0 THEN Zero ELSE PAbs(diff)
    ELSE payments_for_future

\* The is_paid flag of the record _create_advance stores (lines 223, 251).
NewAdvanceIsPaid(event_amount) == FALSE

\* Lines 221 and 244-255, with the opening balance and the credit left.
OpenAdvance(e, event, update_balance, event_amount, credit) ==
    [e EXCEPT
       !.advance_count = @ + 1,
       !.payments_for_future = credit,
       !.advances =
            IF event.state = EVENT_TRUNCATED_TYPE THEN @
            ELSE Append(@, [id |-> e.advance_count + 1,
                            date |-> event.date,
                            initial_amt |-> event.amount,
                            current_balance |-> event_amount,
                            is_paid |-> NewAdvanceIsPaid(event_amount)]),
       !.advance_balance =
            IF update_balance THEN PAdd(@, event_amount) ELSE @]

\* The opening balance and credit for the difference diff.
NetAndOpen(e, event, update_balance, diff) ==
    OpenAdvance(e, event, update_balance,
                OpeningBalance(event.amount, e.payments_for_future, diff),
                CreditLeft(e.payments_for_future, diff))

CreateAdvance(e, event, update_balance) ==
    NetAndOpen(e, event, update_balance,
               PSub(event.amount, e.payments_for_future))

\* What process_event does to next_event: the pair is marked as a same-date
\* pair on the next event (line 282).
MarkSameDate(event, next_event) ==
    IF event.date = next_event.date
    THEN [next_event EXCEPT !.is_same_date = TRUE]
    ELSE next_event

\* An event applied with the payment flow charging the interest of the day.
ApplyEventChargingToday(e, event) ==
    IF event.type = EVENT_ADVANCE_TYPE THEN CreateAdvance(e, event, TRUE)
    ELSE IF event.type = EVENT_PAYMENT_TYPE
    THEN ExecutePaymentFlow(e, event, TRUE)
    ELSE e

\* The event applied by its type (lines 283-286, 291-292 and 304-307).
ApplyEvent(e, event) ==
    IF event.type = EVENT_ADVANCE_TYPE THEN CreateAdvance(e, event, TRUE)
    ELSE IF event.type = EVENT_PAYMENT_TYPE
    THEN ExecutePaymentFlow(e, event, FALSE)
    ELSE e

\* Lines 275-278: the balances before the event, kept for a rollback.
Snapshot(e) ==
    [e EXCEPT !.last_advance_balance = e.advance_balance,
              !.last_interest_payable_balance = e.interest_payable_balance,
              !.last_interest_paid = e.interest_paid,
              !.last_payments_for_future = e.payments_for_future]

\* Lines 293-296: an advance that closes a same-date run turns a negative
\* aggregate into banked credit.
SettleNegativeBalance(e, event) ==
    IF event.is_same_date /\ PSign(e.advance_balance) < 0
    THEN [e EXCEPT !.payments_for_future = PAdd(@, PAbs(e.advance_balance)),
                   !.advance_balance = Zero]
    ELSE e

\* The interest process_event adds for the gap between the two events
\* (lines 298-300 and 308-310).
AccrueGap(e, event, next_event) ==
    [e EXCEPT !.interest_payable_balance =
         PAdd(@, GetAccruedInterests(e, next_event.date, event.date, TRUE))]

\* Lines 281-312 once the event is applied: e is the engine after it.
AccrueAfterEvent(e, event, next_event) ==
    IF e.raised THEN e
    ELSE IF event.date = next_event.date
    THEN [e EXCEPT !.last_event = event.id]
    ELSE IF event.type = EVENT_ADVANCE_TYPE
    THEN [AccrueGap(SettleNegativeBalance(e, event), event, next_event)
             EXCEPT !.last_advance = event.id, !.last_event = event.id]
    ELSE IF event.type = EVENT_PAYMENT_TYPE
    THEN [AccrueGap(e, event, next_event) EXCEPT !.last_event = event.id]
    ELSE [e EXCEPT !.last_event = event.id]

ProcessEvent(e, event, next_event) ==
    AccrueAfterEvent(ApplyEvent(Snapshot(e), event), event, next_event)

\* -------------------------------------------------------------- state
VARIABLES
    \* the AdvanceCalculator object
    advance_balance, interest_payable_balance, interest_paid,
    payments_for_future, advances, last_advance_balance,
    last_interest_payable_balance, last_interest_paid,
    last_payments_for_future, advance_count, last_event, last_advance,
    \* the arguments of get_advance_statistics
    events, end_date,
    \* its locals
    event_count, next_event_count, event, next_event,
    is_end_date_detected, future_event_count,
    \* where the call is: "loop", "after_loop", "lookahead", "final",
    \* "done" (returned), "raised"; "api" for a caller of process_event
    pc,
    \* the returned 4-tuple, or <<>>; the exception raised, or "None"
    result, error,
    \* history: the events handed to _create_advance or
    \* _execute_payment_flow, in order, as <<id, amount, state>>; and the
    \* latest date up to which get_accrued_interests has charged interest
    applied, accrued_to,
    \* the end date and the returned tuple of an earlier call on the same
    \* list, or <<>>
    earlier

engine_vars ==
    <<advance_balance, interest_payable_balance, interest_paid,
      payments_for_future, advances, last_advance_balance,
      last_interest_payable_balance, last_interest_paid,
      last_payments_for_future, advance_count, last_event, last_advance>>
driver_vars ==
    <<events, end_date, event_count, next_event_count, event, next_event,
      is_end_date_detected, future_event_count, pc, result, error>>
vars == <<engine_vars, driver_vars, applied, accrued_to, earlier>>

\* The engine object as a record, and the assignment of one to the object.
Eng ==
    [advance_balance |-> advance_balance,
     interest_payable_balance |-> interest_payable_balance,
     interest_paid |-> interest_paid,
     payments_for_future |-> payments_for_future,
     advances |-> advances,
     last_advance_balance |-> last_advance_balance,
     last_interest_payable_balance |-> last_interest_payable_balance,
     last_interest_paid |-> last_interest_paid,
     last_payments_for_future |-> last_payments_for_future,
     advance_count |-> advance_count,
     last_event |-> last_event,
     last_advance |-> last_advance,
     raised |-> FALSE]

\* The object __init__ leaves.
SetEngInit ==
    /\ advance_balance = NewEngine.advance_balance
    /\ interest_payable_balance = NewEngine.interest_payable_balance
    /\ interest_paid = NewEngine.interest_paid
    /\ payments_for_future = NewEngine.payments_for_future
    /\ advances = NewEngine.advances
    /\ last_advance_balance = NewEngine.last_advance_balance
    /\ last_interest_payable_balance = NewEngine.last_interest_payable_balance
    /\ last_interest_paid = NewEngine.last_interest_paid
    /\ last_payments_for_future = NewEngine.last_payments_for_future
    /\ advance_count = NewEngine.advance_count
    /\ last_event = NewEngine.last_event
    /\ last_advance = NewEngine.last_advance

SetEng(e) ==
    /\ advance_balance' = e.advance_balance
    /\ interest_payable_balance' = e.interest_payable_balance
    /\ interest_paid' = e.interest_paid
    /\ payments_for_future' = e.payments_for_future
    /\ advances' = e.advances
    /\ last_advance_balance' = e.last_advance_balance
    /\ last_interest_payable_balance' = e.last_interest_payable_balance
    /\ last_interest_paid' = e.last_interest_paid
    /\ last_payments_for_future' = e.last_payments_for_future
    /\ advance_count' = e.advance_count
    /\ last_event' = e.last_event
    /\ last_advance' = e.last_advance

\* -------------------------------------------- get_advance_statistics
\* Event(*events[k]) for the 0-based index k of the code.
EventAt(k) ==
    Event(events[k + 1].id, events[k + 1].type, events[k + 1].amount,
          events[k + 1].date)

\* total_events (line 354).
TotalEvents == Len(events) - 1

\* The condition of the main while loop (lines 360-362).
LoopCondition == event_count < TotalEvents /\ ~next_event.is_last

\* The break test of line 377.
EndDateReached(ev, nx) == ev.date < end_date /\ end_date <= nx.date

\* Lines 423, 426 and 433: one day of interest on the balance.
ChargeOneDay(e) ==
    [e EXCEPT !.interest_payable_balance = PAdd(@, DailyInterest(e))]

\* Lines 434-436: the gap from the last event to the end date.
AccrueToEndDate(e, last, end) ==
    [e EXCEPT !.interest_payable_balance =
         PAdd(@, GetAccruedInterests(e, end, last.date, TRUE))]

\* A finalization that charges the days from the last event to the end date
\* without the additional day.
ChargeGapOnly(e, last, end) ==
    IF e.raised THEN e ELSE AccrueToEndDate(e, last, end)

\* Lines 420-436 once the last event is applied: e is the engine after it.
ChargeAfterLastEvent(e, last, end) ==
    IF e.raised THEN e
    ELSE IF last.date = end THEN ChargeOneDay(e)
    ELSE AccrueToEndDate(ChargeOneDay(e), last, end)

\* The code after the loops (lines 419-436) on the engine.
FinalizeEngine(e, last, end) ==
    IF last.date = end \/ end > last.date
    THEN ChargeAfterLastEvent(ApplyEvent(e, last), last, end)
    ELSE e

\* The returned tuple (lines 438-443).
Statistics(e) ==
    <<PAbs(e.advance_balance), PAbs(e.interest_payable_balance),
      PAbs(e.interest_paid), PAbs(e.payments_for_future)>>

\* One call process_event(ev, nx) made by get_advance_statistics: the
\* engine, the history, and where the call goes on (or that it raised).
Drive(ev, nx, pc_after) ==
    \E e \in {ProcessEvent(Eng, ev, nx)} :
        /\ SetEng(e)
        /\ applied' = Append(applied, <<ev.id, ev.amount, ev.state>>)
        /\ accrued_to' = IF ~e.raised /\ ev.date # nx.date
                         THEN Max(accrued_to, nx.date) ELSE accrued_to
        /\ pc' = IF e.raised THEN "raised" ELSE pc_after
        /\ error' = IF e.raised THEN "ValueError" ELSE error
        /\ result' = result

\* One iteration of the main while loop (lines 363-383).
WhileLoop ==
    /\ pc = "loop"
    /\ LoopCondition
    /\ LET count == event_count + 1
           ev0 == EventAt(event_count)
           ev == IF next_event.is_same_date
                 THEN [ev0 EXCEPT !.is_same_date = TRUE] ELSE ev0
           nx0 == EventAt(count)
           last == count = TotalEvents
           detected == ~last /\ EndDateReached(ev, nx0)
           nx == IF last \/ detected THEN [nx0 EXCEPT !.is_last = TRUE]
                 ELSE nx0
       IN  /\ next_event_count' = count
           /\ IF ev0.date > end_date
              THEN /\ pc' = "done"
                   /\ result' = <<Zero, Zero, Zero, Zero>>
                   /\ event' = ev0
                   /\ UNCHANGED <<engine_vars, next_event, event_count,
                                  is_end_date_detected, error, applied,
                                  accrued_to>>
              ELSE IF detected
              THEN /\ pc' = "after_loop"
                   /\ is_end_date_detected' = TRUE
                   /\ event' = ev
                   /\ next_event' = nx
                   /\ UNCHANGED <<engine_vars, event_count, result, error,
                                  applied, accrued_to>>
              ELSE /\ Drive(ev, nx, "loop")
                   /\ event' = ev
                   /\ next_event' = MarkSameDate(ev, nx)
                   /\ event_count' = IF pc' = "raised" THEN event_count
                                     ELSE event_count + 1
                   /\ UNCHANGED is_end_date_detected
    /\ UNCHANGED <<events, end_date, future_event_count, earlier>>

\* The main loop ends because its condition is false: the end date was not
\* detected, and line 419 is next.
LoopExit ==
    /\ pc = "loop"
    /\ ~LoopCondition
    /\ pc' = "final"
    /\ UNCHANGED <<engine_vars, events, end_date, event_count,
                   next_event_count, event, next_event, is_end_date_detected,
                   future_event_count, result, error, applied, accrued_to,
                   earlier>>

\* Lines 386-389 and 413-417: the loop was left by break.  On an exact
\* boundary the lookahead starts; otherwise the next event becomes the
\* zero-amount event dated end_date and is marked truncated afterwards.
EndDateDetected ==
    /\ pc = "after_loop"
    /\ is_end_date_detected
    /\ IF end_date = next_event.date
       THEN /\ future_event_count' = event_count + 2
            /\ pc' = "lookahead"
            /\ UNCHANGED <<engine_vars, next_event, result, error, applied,
                           accrued_to>>
       ELSE LET nx == [next_event EXCEPT !.date = end_date, !.amount = Zero]
            IN  /\ Drive(event, nx, "final")
                /\ next_event' =
                       IF pc' = "raised" THEN MarkSameDate(event, nx)
                       ELSE [MarkSameDate(event, nx)
                                EXCEPT !.state = EVENT_TRUNCATED_TYPE]
                /\ UNCHANGED future_event_count
    /\ UNCHANGED <<events, end_date, event_count, next_event_count, event,
                   is_end_date_detected, earlier>>

\* _get_future_event: None past the end of the list.
GetFutureEvent(future_count) ==
    IF future_count + 1 <= Len(events) THEN EventAt(future_count) ELSE None

\* One iteration of the lookahead loop (lines 390-412).
Lookahead ==
    /\ pc = "lookahead"
    /\ \E future_event \in {GetFutureEvent(future_event_count)} :
         \E run_goes_on \in {future_event # None
                             /\ next_event.date = future_event.date} :
           \E nx \in {IF future_event = None
                      THEN [next_event EXCEPT !.is_last = TRUE,
                                              !.date = end_date]
                      ELSE IF run_goes_on
                      THEN [next_event EXCEPT !.is_last = FALSE]
                      ELSE [next_event EXCEPT !.date = end_date]} :
             /\ Drive(event, nx, IF run_goes_on THEN "lookahead" ELSE "final")
             /\ IF run_goes_on /\ pc' # "raised"
                THEN /\ event_count' = event_count + 1
                     /\ next_event_count' = next_event_count + 1
                     /\ future_event_count' = future_event_count + 1
                     /\ event' = EventAt(event_count + 1)
                     /\ next_event' = EventAt(next_event_count + 1)
                ELSE /\ next_event' = MarkSameDate(event, nx)
                     /\ UNCHANGED <<event, event_count, next_event_count,
                                    future_event_count>>
    /\ UNCHANGED <<events, end_date, is_end_date_detected, earlier>>

\* Lines 419-443: the last event is applied and the tuple returned.  With
\* next_event still None, last_event.date raises AttributeError.
Finalize ==
    /\ pc = "final"
    /\ IF next_event = None
       THEN /\ pc' = "raised"
            /\ error' = "AttributeError"
            /\ UNCHANGED <<engine_vars, result, applied, accrued_to>>
       ELSE \E e \in {FinalizeEngine(Eng, next_event, end_date)} :
                /\ SetEng(e)
                /\ pc' = IF e.raised THEN "raised" ELSE "done"
                /\ error' = IF e.raised THEN "ValueError" ELSE error
                /\ result' = IF e.raised THEN result ELSE Statistics(e)
                /\ applied' =
                       IF next_event.date <= end_date
                          /\ next_event.type \in
                                 {EVENT_ADVANCE_TYPE, EVENT_PAYMENT_TYPE}
                       THEN Append(applied, <<next_event.id,
                                     next_event.amount, next_event.state>>)
                       ELSE applied
                /\ accrued_to' =
                       IF ~e.raised /\ end_date > next_event.date
                       THEN Max(accrued_to, end_date) ELSE accrued_to
    /\ UNCHANGED <<events, end_date, event_count, next_event_count, event,
                   next_event, is_end_date_detected, future_event_count,
                   earlier>>

\* ----------------------------------------------------------- inputs
EventTypes == {EVENT_ADVANCE_TYPE, EVENT_PAYMENT_TYPE}

\* The date-ordered lists of 1..max_len input rows (id, type, amount,
\* date) over the given amounts and days; the id of a row is its position.
EventLists(max_len, amounts, days) ==
    LET rows == EventTypes \X amounts \X days
        lists == UNION {[1..n -> rows] : n \in 1..max_len}
    IN  {[i \in DOMAIN f |-> [id |-> i, type |-> f[i][1],
                              amount |-> f[i][2], date |-> f[i][3]]] :
           f \in {g \in lists :
                    \A i \in 1..(Len(g) - 1) : g[i][3] <= g[i + 1][3]}}

\* A fresh engine and a call get_advance_statistics(list, end) about to
\* enter its loop.
CallOn(lists, ends) ==
    /\ SetEngInit
    /\ events \in lists
    /\ end_date \in ends
    /\ event_count = 0
    /\ next_event_count = 0
    /\ event = None
    /\ next_event = None
    /\ is_end_date_detected = FALSE
    /\ future_event_count = 0
    /\ pc = "loop"
    /\ result = <<>>
    /\ error = "None"
    /\ applied = <<>>
    /\ accrued_to = -1
    /\ earlier = <<>>

Init ==
    CallOn(EventLists(MaxEvents, {Dec(k) : k \in 0..MaxAmount}, 0..MaxDate),
           0..(MaxDate + 1))

Next == WhileLoop \/ LoopExit \/ EndDateDetected \/ Lookahead \/ Finalize

Spec == Init /\ [][Next]_vars

\* ------------------------------------------- the worked scenarios
\* The inputs of the specification's scenarios: amount 1000 on the days 0
\* (2023-01-01), 5 and 10 (2023-01-11).
ScenarioAmounts == {Dec(1000)}
ScenarioDays == {0, 5, 10}

InitScenario == CallOn(EventLists(3, ScenarioAmounts, ScenarioDays), ScenarioDays)

SpecScenario == InitScenario /\ [][Next]_vars

\* ------------------------------------- a caller of process_event
\* The amounts a caller passes: whole amounts and, for a payment made while
\* interest is payable, the interest payable plus a whole amount (a payoff
\* of the interest and of part of the principal) and a whole number of days
\* of interest on one unit (a payment that may cover the interest only in
\* part).
CallerAmounts(type) ==
    {Dec(k) : k \in 0..MaxUnits}
    \cup (IF type = EVENT_PAYMENT_TYPE /\ PSign(interest_payable_balance) > 0
          THEN {PAdd(interest_payable_balance, Dec(k)) : k \in 0..MaxUnits}
               \cup {PTimesRate(Dec(k)) : k \in 1..MaxUnits}
          ELSE {})

\* A fresh engine in the hands of a caller whose first event is dated 0.
InitEngine ==
    /\ SetEngInit
    /\ events = <<>>
    /\ end_date = 0
    /\ event_count = 0
    /\ next_event_count = 0
    /\ event = None
    /\ next_event = None
    /\ is_end_date_detected = FALSE
    /\ future_event_count = 0
    /\ pc = "api"
    /\ result = <<>>
    /\ error = "None"
    /\ applied = <<>>
    /\ accrued_to = -1
    /\ earlier = <<>>

\* One call process_event(event, next_event) by the caller: the event is
\* the next event of the call before (so it carries the same-date mark that
\* call left on it), and the new next event is dated gap days later; only
\* its date is read.
CallProcessEvent ==
    /\ pc = "api"
    /\ event_count < MaxCalls
    /\ \E type \in EventTypes, gap \in 0..MaxGap :
         \E amount \in CallerAmounts(type) :
           \E ev \in {[Event(event_count + 1, type, amount, next_event.date)
                         EXCEPT !.is_same_date = next_event.is_same_date]} :
             \E nx \in {[None EXCEPT !.id = event_count + 2,
                                     !.date = ev.date + gap]} :
               \E e \in {ProcessEvent(Eng, ev, nx)} :
                 /\ SetEng(e)
                 /\ event' = ev
                 /\ next_event' = MarkSameDate(ev, nx)
                 /\ event_count' = event_count + 1
                 /\ pc' = IF e.raised THEN "raised" ELSE "api"
                 /\ error' = IF e.raised THEN "ValueError" ELSE error
    /\ UNCHANGED <<events, end_date, next_event_count, is_end_date_detected,
                   future_event_count, result, applied, accrued_to, earlier>>

NextEngine == CallProcessEvent

SpecEngine == InitEngine /\ [][NextEngine]_vars

\* --------------------------------- two calls on the same event list
\* A caller that has the statistics for one end date asks again, on a
\* fresh AdvanceCalculator, for a later end date with no event dated in
\* between; the earlier answer is kept for comparison.
CallWithLaterEndDate ==
    /\ pc = "done"
    /\ earlier = <<>>
    /\ events[1].date <= end_date
    /\ \E later \in (end_date + 1)..(MaxDate + 1) :
         /\ \A i \in DOMAIN events :
              ~(end_date < events[i].date /\ events[i].date <= later)
         /\ end_date' = later
    /\ earlier' = <<end_date, result>>
    /\ SetEng(NewEngine)
    /\ event_count' = 0
    /\ next_event_count' = 0
    /\ event' = None
    /\ next_event' = None
    /\ is_end_date_detected' = FALSE
    /\ future_event_count' = 0
    /\ pc' = "loop"
    /\ result' = <<>>
    /\ error' = "None"
    /\ applied' = <<>>
    /\ accrued_to' = -1
    /\ UNCHANGED events

NextTwoCalls == Next \/ CallWithLaterEndDate

SpecTwoCalls == Init /\ [][NextTwoCalls]_vars

\* ------------------------- two calls on lists that differ after the end date
\* The longest list of the first call and the most events the second list
\* has after the end date.
MaxListed == 3
MaxOther == 2

\* The number of events of the list dated on or before the end date; the
\* list is date-ordered, so they are its first events.
EventsInRange ==
    Cardinality({i \in DOMAIN events : events[i].date <= end_date})

\* A caller that has the statistics for a list asks again, on a fresh
\* AdvanceCalculator and for the same end date, with a list that holds the
\* same events up to the end date and other events after it; the earlier
\* answer is kept for comparison.
CallOnOtherLaterEvents ==
    /\ pc = "done"
    /\ earlier = <<>>
    /\ \E k \in {EventsInRange} :
         \E tail \in {<<>>} \cup EventLists(MaxOther,
                                            {Dec(a) : a \in 0..MaxAmount},
                                            (end_date + 1)..MaxDate) :
           \E other \in {SubSeq(events, 1, k)
                         \o [i \in DOMAIN tail |->
                                [tail[i] EXCEPT !.id = k + i]]} :
             /\ other # <<>>
             /\ other # events
             /\ events' = other
    /\ earlier' = <<end_date, result>>
    /\ SetEng(NewEngine)
    /\ event_count' = 0
    /\ next_event_count' = 0
    /\ event' = None
    /\ next_event' = None
    /\ is_end_date_detected' = FALSE
    /\ future_event_count' = 0
    /\ pc' = "loop"
    /\ result' = <<>>
    /\ error' = "None"
    /\ applied' = <<>>
    /\ accrued_to' = -1
    /\ UNCHANGED end_date

InitTwoLists ==
    CallOn(EventLists(MaxListed, {Dec(a) : a \in 0..MaxAmount}, 0..MaxDate),
           0..MaxDate)

NextTwoLists == Next \/ CallOnOtherLaterEvents

SpecTwoLists == InitTwoLists /\ [][NextTwoLists]_vars

\* ------------------------------------------------------------ claims
\* get_advance_statistics is over: it returned or it raised.
Halted == pc \in {"done", "raised"}

NoBalances == <<Zero, Zero, Zero, Zero>>

\* What the history holds once the first k events of the list were each
\* applied once, in order, as they were given.
AppliedUpTo(k) == [i \in 1..k |-> <<i, events[i].amount, "None">>]

\* The end date lies strictly between the dates of the events k and k + 1.
BetweenEvents(k) ==
    events[k].date < end_date /\ end_date < events[k + 1].date

\* C1: with the end date strictly between the dates of two consecutive
\* events E_k and E_k+1 (E_k+1 may be the last event), the call returns
\* after applying the events up to E_k and then a zero-amount truncated
\* event, E_k+1 is never applied, and no interest is accrued for days after
\* the end date.
C1_TruncatesBetweenEvents ==
    \A k \in 1..(Len(events) - 1) :
        (Halted /\ BetweenEvents(k)) =>
            /\ pc = "done"
            /\ applied = Append(AppliedUpTo(k),
                                <<k + 1, Zero, EVENT_TRUNCATED_TYPE>>)
            /\ accrued_to <= end_date

\* C2: for two end dates d1 < d2 on or after the first event's date with no
\* event dated in (d1, d2], the later call returns the same advance
\* balance, interest paid and payments for future as the earlier one, and
\* an interest payable that is larger by (d2 - d1) days of daily interest
\* on that advance balance.
C2_MonotonicEndDate ==
    (pc = "done" /\ earlier # <<>>) =>
        /\ result[1] = earlier[2][1]
        /\ result[3] = earlier[2][3]
        /\ result[4] = earlier[2][4]
        /\ result[2] = PAdd(earlier[2][2],
                            PScale(end_date - earlier[1],
                                   PTimesRate(earlier[2][1])))

\* C3: a single advance of 1000 on day 0 with end date day 10 returns
\* (1000, DAILY_RATE x 1000 x 10, 0, 0).
C3_SingleAdvanceTenDays ==
    (/\ Halted
     /\ events = <<[id |-> 1, type |-> EVENT_ADVANCE_TYPE,
                    amount |-> Dec(1000), date |-> 0]>>
     /\ end_date = 10) =>
        /\ pc = "done"
        /\ result = <<Dec(1000), PScale(10, PTimesRate(Dec(1000))), Zero, Zero>>

\* C4: a list (of any length) whose first event is dated after the end date
\* returns (0, 0, 0, 0); and for a list whose first event is an advance of
\* positive amount dated on or before the end date the all-zero result is
\* returned only if the balances of the engine are all zero (the advance
\* was repaid on its own day), never as the answer for "no activity yet".
C4_ZerosOnlyBeforeFirstEvent ==
    Halted =>
        /\ events[1].date > end_date =>
               (pc = "done" /\ result = NoBalances)
        /\ (/\ pc = "done"
            /\ result = NoBalances
            /\ events[1].date <= end_date
            /\ events[1].type = EVENT_ADVANCE_TYPE
            /\ PSign(events[1].amount) > 0) =>
               Statistics(Eng) = NoBalances

\* C5: in every state reachable from a fresh engine by process_event calls
\* over date-ordered events with non-negative amounts, the interest
\* payable is not negative.
C5_InterestPayableNeverNegative == PSign(interest_payable_balance) >= 0

\* C6: a negative interest payable ends the computation: the next call of
\* process_event on an engine whose interest payable is negative raises,
\* whatever the event.
C6_NegativeInterestPayableRaises ==
    [][PSign(interest_payable_balance) < 0 => pc' = "raised"]_vars

\* C7: every stored advance record has a balance that is not negative, and
\* the balance is zero exactly when the record is flagged paid.
C7_PaidIffZeroBalance ==
    \A i \in DOMAIN advances :
        /\ PSign(advances[i].current_balance) >= 0
        /\ (advances[i].current_balance = Zero) <=> advances[i].is_paid

\* The step is a call of process_event that returned, for a payment or for
\* an advance.
IsPaymentCall ==
    /\ pc = "api" /\ pc' = "api"
    /\ event_count' = event_count + 1
    /\ event'.type = EVENT_PAYMENT_TYPE
IsAdvanceCall ==
    /\ pc = "api" /\ pc' = "api"
    /\ event_count' = event_count + 1
    /\ event'.type = EVENT_ADVANCE_TYPE

\* What the payment of the step leaves for principal once interest is paid.
PrincipalPart == PSub(event'.amount, PSub(interest_paid', interest_paid))

\* The total balance of the records not flagged paid.
RECURSIVE Outstanding(_)
Outstanding(advs) ==
    IF advs = <<>> THEN Zero
    ELSE PAdd(IF advs[1].is_paid THEN Zero ELSE advs[1].current_balance,
              Outstanding(Tail(advs)))

\* The records ia and ib are the two oldest records not flagged paid.
OldestTwoUnpaid(ia, ib) ==
    /\ ia < ib
    /\ \A j \in 1..ib : advances[j].is_paid <=> j \notin {ia, ib}

\* C8: a payment whose principal part p > 0 satisfies a <= p < a + b for the
\* balances a and b of the two oldest unpaid advances A and B leaves A paid
\* with balance 0, B unpaid with balance b - (p - a), the aggregate advance
\* balance lower by p, payments for future 0, and every newer record as it
\* was.
C8_FifoPayoff ==
    [][\A ia, ib \in DOMAIN advances :
         (/\ IsPaymentCall
          /\ OldestTwoUnpaid(ia, ib)
          /\ PSign(PrincipalPart) > 0
          /\ PSign(PSub(PrincipalPart, advances[ia].current_balance)) >= 0
          /\ PSign(PSub(PAdd(advances[ia].current_balance,
                             advances[ib].current_balance),
                        PrincipalPart)) > 0)
         => /\ advances'[ia].current_balance = Zero
            /\ advances'[ia].is_paid
            /\ advances'[ib].current_balance =
                   PSub(advances[ib].current_balance,
                        PSub(PrincipalPart, advances[ia].current_balance))
            /\ ~advances'[ib].is_paid
            /\ advance_balance' = PSub(advance_balance, PrincipalPart)
            /\ payments_for_future' = Zero
            /\ \A j \in DOMAIN advances :
                   j > ib => advances'[j] = advances[j]]_vars

\* C9: with no credit banked, a payment whose principal part exceeds the
\* total of the outstanding advances by x > 0 leaves advance balance 0 and
\* payments for future x; and an advance of an amount a smaller than the
\* banked credit x, arriving at advance balance 0, opens a record with
\* balance 0 and leaves advance balance 0 and payments for future x - a.
C9_CreditBankingRoundTrip ==
    [][/\ (/\ IsPaymentCall
           /\ payments_for_future = Zero
           /\ PSign(PSub(PrincipalPart, Outstanding(advances))) > 0)
          => /\ advance_balance' = Zero
             /\ payments_for_future' =
                    PSub(PrincipalPart, Outstanding(advances))
       /\ (/\ IsAdvanceCall
           /\ advance_balance = Zero
           /\ PSign(PSub(payments_for_future, event'.amount)) > 0)
          => /\ Len(advances') = Len(advances) + 1
             /\ advances'[Len(advances')].current_balance = Zero
             /\ advance_balance' = Zero
             /\ payments_for_future' =
                    PSub(payments_for_future, event'.amount)]_vars

\* C10: when the end date is the date of an event, the call applies every
\* event dated on or before the end date exactly once, in list order, and
\* no event dated after it.
C10_ExactBoundaryAppliesEachEventOnce ==
    (Halted /\ \E i \in DOMAIN events : events[i].date = end_date) =>
        applied = AppliedUpTo(Cardinality({i \in DOMAIN events :
                                              events[i].date <= end_date}))

\* The scenario: an advance of 1000 on day 0, a payment of 1000 on day 5,
\* queried at the payment's date.
RepaidOnDayFive ==
    /\ events = <<[id |-> 1, type |-> EVENT_ADVANCE_TYPE,
                   amount |-> Dec(1000), date |-> 0],
                  [id |-> 2, type |-> EVENT_PAYMENT_TYPE,
                   amount |-> Dec(1000), date |-> 5]>>
    /\ end_date = 5

\* C11 as stated: the scenario returns advance balance 0.
C11_RepaidScenarioLeavesNoBalance ==
    (Halted /\ RepaidOnDayFive) => (pc = "done" /\ result[1] = Zero)

\* C11 as amended: the payment first pays the five days of interest on 1000,
\* so the scenario returns an advance balance of 5 x DAILY_RATE x 1000, the
\* same amount as interest paid, one day of interest on that balance as
\* interest payable, and no payments for future.
C11_RepaidScenarioLeavesInterest ==
    (Halted /\ RepaidOnDayFive) =>
        /\ pc = "done"
        /\ result = <<PScale(5, PTimesRate(Dec(1000))),
                      PTimesRate(PScale(5, PTimesRate(Dec(1000)))),
                      PScale(5, PTimesRate(Dec(1000))),
                      Zero>>

C11_RepaidScenarioReturned == pc = "done" /\ RepaidOnDayFive

\* The smaller of two amounts.
PMin(p, q) == IF PSign(PSub(p, q)) <= 0 THEN p ELSE q

\* The interest process_event adds, after the event of the step, for the
\* days up to the next event, on the given balance.
GapInterest(balance) ==
    PScale(next_event'.date - event'.date, PTimesRate(balance))

\* C12: a payment p made while the interest payable is i > 0 adds min(p, i)
\* to the interest paid; and when p < i it leaves i - p payable (before the
\* accrual for the days up to the next event) and changes neither the
\* advance balance, nor a stored advance, nor the advance counter, nor the
\* payments for future.
C12_InterestIsPaidFirst ==
    [][(IsPaymentCall /\ PSign(interest_payable_balance) > 0) =>
          /\ interest_paid' =
                 PAdd(interest_paid,
                      PMin(event'.amount, interest_payable_balance))
          /\ PSign(PSub(event'.amount, interest_payable_balance)) < 0 =>
                 /\ interest_payable_balance' =
                        PAdd(PSub(interest_payable_balance, event'.amount),
                             GapInterest(advance_balance))
                 /\ advance_balance' = advance_balance
                 /\ advances' = advances
                 /\ advance_count' = advance_count
                 /\ payments_for_future' = payments_for_future]_vars

\* A payment of a positive amount smaller than the interest payable was
\* processed.
C12_PartialInterestPaymentMade ==
    /\ pc = "api"
    /\ event.type = EVENT_PAYMENT_TYPE
    /\ PSign(event.amount) > 0
    /\ PSign(PSub(last_interest_payable_balance, event.amount)) > 0
    /\ interest_paid = PAdd(last_interest_paid, event.amount)

\* C13: a payment whose amount equals the positive interest payable adds
\* its amount to the interest paid and leaves the interest payable as it
\* was (it is not reset to zero; only the accrual for the days up to the
\* next event is added afterwards), and leaves the advance balance, the
\* stored advances and the payments for future unchanged.
C13_ExactInterestPaymentKeepsPayable ==
    [][(/\ IsPaymentCall
        /\ PSign(interest_payable_balance) > 0
        /\ event'.amount = interest_payable_balance) =>
          /\ interest_paid' = PAdd(interest_paid, event'.amount)
          /\ interest_payable_balance' =
                 PAdd(interest_payable_balance, GapInterest(advance_balance))
          /\ advance_balance' = advance_balance
          /\ advances' = advances
          /\ payments_for_future' = payments_for_future]_vars

\* A payment equal to the positive interest payable was processed and
\* interest is still payable.
C13_ExactInterestPaymentMade ==
    /\ pc = "api"
    /\ event.type = EVENT_PAYMENT_TYPE
    /\ PSign(last_interest_payable_balance) > 0
    /\ event.amount = last_interest_payable_balance
    /\ interest_paid = PAdd(last_interest_paid, event.amount)
    /\ PSign(interest_payable_balance) > 0

\* C14: in the payment flow where the payment exceeds the positive interest
\* payable, when the FIFO payoff leaves banked credit c > 0 and an aggregate
\* advance balance a > 0: with c = a both become 0; with c < a the advance
\* balance becomes a - c and the credit 0; with c > a the advance balance
\* becomes 0 and the credit c - a.
C14_ReconcileNetsCreditAgainstBalance ==
    [][(/\ IsPaymentCall
        /\ PSign(interest_payable_balance) > 0
        /\ PSign(PSub(event'.amount, interest_payable_balance)) > 0) =>
          \A m \in {DecreaseOldestActiveBalance(
                      Eng, PSub(event'.amount, interest_payable_balance))} :
            (PSign(m.payments_for_future) > 0 /\ PSign(m.advance_balance) > 0)
            => \E diff \in {PSub(m.advance_balance, m.payments_for_future)} :
                 /\ advance_balance' = IF PSign(diff) > 0 THEN diff ELSE Zero
                 /\ payments_for_future' =
                        IF PSign(diff) < 0 THEN PAbs(diff) ELSE Zero]_vars

\* The step of the finalization that creates an advance from the terminal
\* event (lines 422 and 431), which is dated on or before the end date.
IsFinalAdvance ==
    /\ pc = "final" /\ pc' = "done"
    /\ next_event.type = EVENT_ADVANCE_TYPE
    /\ next_event.date <= end_date

\* The interest the finalization adds on a balance: one day, and the days
\* from the terminal event to the end date.
FinalInterest(balance) ==
    PScale(1 + (end_date - next_event.date), PTimesRate(balance))

\* C15: an advance created with banked credit c >= 0 and requested amount
\* a >= 0 opens with balance max(a - c, 0); the payments for future become
\* max(c - a, 0); the aggregate advance balance grows by the opening
\* balance; the advance counter grows by 1; exactly one record is stored
\* under the new counter value, not paid, with a as initial amount and the
\* opening balance as current balance, unless the event is a truncated
\* marker, which stores nothing; the interest paid is unchanged and the
\* interest payable is changed only by what the finalization accrues after
\* the creation.
C15_AdvanceCreationNetsCredit ==
    [][(/\ IsFinalAdvance
        /\ PSign(payments_for_future) >= 0
        /\ PSign(next_event.amount) >= 0) =>
          \E diff \in {PSub(next_event.amount, payments_for_future)} :
            \E opening \in {IF PSign(diff) > 0 THEN diff ELSE Zero} :
              /\ payments_for_future' =
                     IF PSign(diff) < 0 THEN PAbs(diff) ELSE Zero
              /\ advance_balance' = PAdd(advance_balance, opening)
              /\ advance_count' = advance_count + 1
              /\ advances' =
                     IF next_event.state = EVENT_TRUNCATED_TYPE THEN advances
                     ELSE Append(advances,
                                 [id |-> advance_count + 1,
                                  date |-> next_event.date,
                                  initial_amt |-> next_event.amount,
                                  current_balance |-> opening,
                                  is_paid |-> FALSE])
              /\ interest_paid' = interest_paid
              /\ interest_payable_balance' =
                     PAdd(interest_payable_balance,
                          FinalInterest(advance_balance'))]_vars

\* The call returned after creating the terminal advance against a smaller
\* positive credit: the stored record opened below its requested amount and
\* no credit is left.
C15_AdvanceOpenedAgainstCredit ==
    /\ pc = "done"
    /\ next_event.type = EVENT_ADVANCE_TYPE
    /\ next_event.state # EVENT_TRUNCATED_TYPE
    /\ advances # <<>>
    /\ advances[Len(advances)].id = advance_count
    /\ advances[Len(advances)].initial_amt = next_event.amount
    /\ PSign(advances[Len(advances)].current_balance) > 0
    /\ advances[Len(advances)].current_balance # next_event.amount
    /\ payments_for_future = Zero

\* The interest payable once the event ev is applied and before any
\* accrual: an advance leaves it; a payment takes its amount off it, down
\* to zero, except that a payment equal to it leaves it.
PayableAfter(ev) ==
    IF ev.type = EVENT_PAYMENT_TYPE /\ PSign(interest_payable_balance) > 0
    THEN IF ev.amount = interest_payable_balance
         THEN interest_payable_balance
         ELSE IF PSign(PSub(ev.amount, interest_payable_balance)) < 0
         THEN PSub(interest_payable_balance, ev.amount)
         ELSE Zero
    ELSE interest_payable_balance

TerminalEventInRange ==
    Len(events) >= 2 /\ events[Len(events)].date <= end_date

\* The entries of the history that apply the event with identifier id.
TimesApplied(history, id) ==
    Cardinality({i \in DOMAIN history : history[i][1] = id})

\* C17: for a list of at least two events whose terminal event is dated
\* L <= end date, the finalization applies the terminal event, which no
\* earlier step applied, and then accrues exactly 1 + (end date - L) days of
\* interest at the daily rate on the aggregate advance balance left by the
\* terminal event.
C17_FinalizationAccruesToEndDate ==
    [][(pc = "final" /\ pc' = "done" /\ TerminalEventInRange) =>
          /\ next_event.id = Len(events)
          /\ next_event.date = events[Len(events)].date
          /\ TimesApplied(applied, Len(events)) = 0
          /\ applied' = Append(applied, <<Len(events),
                                          events[Len(events)].amount, "None">>)
          /\ interest_payable_balance' =
                 PAdd(PayableAfter(next_event),
                      FinalInterest(advance_balance'))]_vars

\* The call returned for an end date after the terminal event, which left
\* a positive balance that accrued interest.
C17_FinalizedAfterTerminalEvent ==
    /\ pc = "done"
    /\ TerminalEventInRange
    /\ events[Len(events)].date < end_date
    /\ PSign(advance_balance) > 0
    /\ PSign(interest_payable_balance) > 0
    /\ applied[Len(applied)][1] = Len(events)

\* C18: a call of get_advance_statistics on a non-empty date-ordered list
\* that has stopped has either returned a tuple of four values or raised
\* the negative-interest error; running past the end of the list in the
\* lookahead raises nothing.
C18_StopsWithTupleOrFatalError ==
    Halted => ((pc = "done" /\ Len(result) = 4)
               \/ (pc = "raised" /\ error = "ValueError"))

\* The sum of the current balances of the stored advance records.
RECURSIVE SumOfBalances(_)
SumOfBalances(advs) ==
    IF advs = <<>> THEN Zero
    ELSE PAdd(advs[1].current_balance, SumOfBalances(Tail(advs)))

\* C19: after any sequence of advance and payment events on a fresh engine
\* the aggregate advance balance equals the sum of the current balances of
\* the stored advance records, and so is not negative.
C19_AggregateEqualsLedger ==
    pc = "api" => /\ advance_balance = SumOfBalances(advances)
                  /\ PSign(advance_balance) >= 0

\* What the event of the step pays in, and what it asks to borrow.
PaidIn == IF event'.type = EVENT_PAYMENT_TYPE THEN event'.amount ELSE Zero
Requested == IF event'.type = EVENT_ADVANCE_TYPE THEN event'.amount ELSE Zero

\* Where the money paid in can be: interest paid, principal repaid (the
\* amounts requested less the aggregate balance) and payments for future.
\* The change of that total over the step.
AccountedChange ==
    PSub(PAdd(PAdd(interest_paid', payments_for_future'),
              PAdd(Requested, advance_balance)),
         PAdd(PAdd(interest_paid, payments_for_future), advance_balance'))

\* C20: money is conserved: the payments applied equal the interest paid
\* plus the amounts requested by the advances less the advance balance plus
\* the payments for future.  The equation holds of a fresh engine (all
\* terms are zero), so it holds after every sequence of events exactly when
\* every event changes its right side by the amount it pays in; a payment
\* lost, counted twice, or written over banked credit breaks that.
C20_MoneyIsConserved ==
    [][(IsPaymentCall \/ IsAdvanceCall) => AccountedChange = PaidIn]_vars

\* C21: two date-ordered lists that hold the same events dated on or before
\* the end date, in the same order, and differ only in the events dated
\* after it, give the same returned tuple, each on a fresh engine: the
\* second call returns what the first returned.
C21_LaterEventsDoNotMatter ==
    (pc = "done" /\ earlier # <<>>) => result = earlier[2]

\* C22: banked credit and outstanding principal never coexist: after every
\* completed process_event, positive payments for future mean that the
\* aggregate advance balance is zero and no stored advance has a positive
\* current balance.
C22_NoCreditWithOutstandingPrincipal ==
    (pc = "api" /\ PSign(payments_for_future) > 0) =>
        /\ advance_balance = Zero
        /\ \A i \in DOMAIN advances :
               PSign(advances[i].current_balance) <= 0

\* ------------------------------------------------------------ sanity
\* The sign the model reads off a balance is the balance's sign.
SignsAreExact ==
    /\ PSignExact(advance_balance)
    /\ PSignExact(interest_payable_balance)
    /\ PSignExact(interest_paid)
    /\ PSignExact(payments_for_future)
    /\ \A i \in DOMAIN advances : PSignExact(advances[i].current_balance)

=============================================================================
